---- MODULE Spec2Model ----
(***************************************************************************)
(* Model of the track predictor page (pages/12_track_predictor.py): the    *)
(* loading of the data, the feature normaliser, the dual-reference         *)
(* similarity scorer and the radar chart; of the percentile split of the   *)
(* trends page (pages/3_Temporal_Trends.py); and of the radar charts with  *)
(* fixed ranges of the decadal page (pages/4_Decadal_Fingerprint.py) and   *)
(* the genre page (pages/6_Genre_Deep_Dive.py).                            *)
(*                                                                         *)
(* Numbers.  Python floats are modelled as exact rationals <<n, d>> in     *)
(* lowest terms with d > 0, and nan as <<1, 0>>.  Raw feature values and   *)
(* range ends are drawn from small grids of whole numbers.                 *)
(* np.linalg.norm is modelled as a square root                             *)
(* rounded down to a multiple of 1/SqrtScale: like the float it returns,   *)
(* it is a deterministic, monotone, rounded function of the sum of         *)
(* squares.                                                                *)
(*                                                                         *)
(* Python dicts and pandas Series are functions whose DOMAIN is the set of *)
(* keys present.                                                           *)
(***************************************************************************)
EXTENDS Integers, Sequences, FiniteSets, TLC

VARIABLES
    norm_params,        \* feature name -> <<min_val, max_val>> (a dict)
    norm_call,          \* the latest normalize_feature call and its result
    norm_prev,          \* the normalize_feature call before it
    avg_top_profile,    \* the hit (Top 5%) reference profile (a Series)
    avg_bottom_profile, \* the flop (Bottom 5%) reference profile (a Series)
    score_call,         \* the latest calculate_prediction_score call
    radar_call,         \* the latest radar chart built
    csv,                \* the file top_10000_1950-now.csv
    load_call,          \* the load_and_analyze_raw_data call and its result
    page_view,          \* what the predictor page shows after one run
    df_full_hits,       \* the Popularity_Score column of the trends page
    split_call,         \* the percentile split of the trends page
    swap_call,          \* the scorer called with hits and flops exchanged
    script_runs         \* how often the predictor page's script has run

\* The variables of the data loading and of the pages.
page_vars ==
    <<csv, load_call, page_view, df_full_hits, split_call, swap_call,
      script_runs>>

vars == <<norm_params, norm_call, norm_prev,
          avg_top_profile, avg_bottom_profile, score_call, radar_call,
          csv, load_call, page_view, df_full_hits, split_call, swap_call,
          script_runs>>

(***************************************************************************)
(* Bounds of the model.                                                    *)
(***************************************************************************)
\* Range ends and the raw values of a profile are 0..RawMax; the raw values
\* handed to normalize_feature reach one step further on both sides.
RawMax == 2
\* Granularity of the rounded square root: 1/SqrtScale.
SqrtScale == 16

\* The first features of the list the loader returns.
features == <<"Danceability", "Loudness">>

FeatureKeys == {features[i] : i \in 1..Len(features)}

RawValues == {<<k, 1>> : k \in (0 - 1)..(RawMax + 1)}

ProfileValues == {<<k, 1>> : k \in 0..RawMax}

\* No call yet.
None == [kind |-> "None"]

(***************************************************************************)
(* Rational arithmetic: the float operations the code uses.                *)
(***************************************************************************)
RECURSIVE GCD(_, _)
GCD(a, b) == IF b = 0 THEN a ELSE GCD(b, a % b)

Abs(a) == IF a < 0 THEN 0 - a ELSE a

\* The rational n/d (d # 0) in lowest terms with a positive denominator.
Rat(n, d) ==
    LET g == GCD(Abs(n), Abs(d))
        s == IF d < 0 THEN 0 - 1 ELSE 1
    IN  <<(s * n) \div g, (s * d) \div g>>

\* The outcome of a division whose divisor is zero (Python raises
\* ZeroDivisionError); no rational has a zero denominator.
ZeroDivisionError == <<0, 0>>

\* float('nan'): what pandas returns for the min, max, mean or quantile of
\* no values.
NaN == <<1, 0>>

IsRat(x) == x \in Int \X (Nat \ {0})

\* Neither a number: nan or a failed division.
NotNumber(x) == x[2] = 0

\* a / b; the right operand may be zero, either may be nan.
RatDiv(a, b) ==
    IF NotNumber(a) \/ NotNumber(b) THEN NaN
    ELSE IF b[1] = 0 THEN ZeroDivisionError
    ELSE Rat(a[1] * b[2], a[2] * b[1])

\* a - b and a + b, over the least common denominator.
RatSub(a, b) ==
    IF NotNumber(a) \/ NotNumber(b) THEN NaN
    ELSE LET g == GCD(a[2], b[2])
         IN  Rat(a[1] * (b[2] \div g) - b[1] * (a[2] \div g),
                 (a[2] \div g) * b[2])

RatAdd(a, b) ==
    IF NotNumber(a) \/ NotNumber(b) THEN NaN
    ELSE LET g == GCD(a[2], b[2])
         IN  Rat(a[1] * (b[2] \div g) + b[1] * (a[2] \div g),
                 (a[2] \div g) * b[2])

RatMul(a, b) ==
    IF NotNumber(a) \/ NotNumber(b) THEN NaN
    ELSE Rat(a[1] * b[1], a[2] * b[2])

\* a <= b; every comparison with nan is False.
RatLe(a, b) ==
    ~NotNumber(a) /\ ~NotNumber(b) /\ a[1] * b[2] <= b[1] * a[2]

\* a < b; every comparison with nan is False.
RatLt(a, b) ==
    ~NotNumber(a) /\ ~NotNumber(b) /\ a[1] * b[2] < b[1] * a[2]

\* Python's max(a, b): b if b > a, else a.
PyMax(a, b) == IF RatLt(a, b) THEN b ELSE a

\* Python's min(a, b): b if b < a, else a.
PyMin(a, b) == IF RatLt(b, a) THEN b ELSE a

Zero == <<0, 1>>

One == <<1, 1>>

Half == <<1, 2>>

(***************************************************************************)
(* normalize_feature                                                       *)
(***************************************************************************)
\* Mutant: the scaled value is returned without the clip to [0, 1].
normalize_feature_noclip(feature_name, value, params) ==
    IF feature_name \in DOMAIN params
    THEN LET min_val == params[feature_name][1]
             max_val == params[feature_name][2]
             data_range == RatSub(max_val, min_val)
         IN  IF RatLt(Zero, data_range)
             THEN RatDiv(RatSub(value, min_val), data_range)
             ELSE Half
    ELSE value

\* Mutant: the value is scaled by max_val instead of by the range.
normalize_feature_divmax(feature_name, value, params) ==
    IF feature_name \in DOMAIN params
    THEN LET min_val == params[feature_name][1]
             max_val == params[feature_name][2]
             data_range == RatSub(max_val, min_val)
         IN  IF RatLt(Zero, data_range)
             THEN PyMin(One, PyMax(Zero,
                      RatDiv(RatSub(value, min_val), max_val)))
             ELSE Half
    ELSE value

\* Mutant: the difference is taken the wrong way round.
normalize_feature_flipped(feature_name, value, params) ==
    IF feature_name \in DOMAIN params
    THEN LET min_val == params[feature_name][1]
             max_val == params[feature_name][2]
             data_range == RatSub(max_val, min_val)
         IN  IF RatLt(Zero, data_range)
             THEN PyMin(One, PyMax(Zero,
                      RatDiv(RatSub(max_val, value), data_range)))
             ELSE Half
    ELSE value

\* Mutant: the zero-range guard is dropped and the division always runs.
normalize_feature_noguard(feature_name, value, params) ==
    IF feature_name \in DOMAIN params
    THEN LET min_val == params[feature_name][1]
             max_val == params[feature_name][2]
             data_range == RatSub(max_val, min_val)
             normalized_value ==
                 RatDiv(RatSub(value, min_val), data_range)
         IN  IF normalized_value = ZeroDivisionError
             THEN ZeroDivisionError
             ELSE PyMin(One, PyMax(Zero, normalized_value))
    ELSE value

\* Mutant: only the lower clip is applied.
normalize_feature_lowclip(feature_name, value, params) ==
    IF feature_name \in DOMAIN params
    THEN LET min_val == params[feature_name][1]
             max_val == params[feature_name][2]
             data_range == RatSub(max_val, min_val)
         IN  IF RatLt(Zero, data_range)
             THEN PyMax(Zero,
                      RatDiv(RatSub(value, min_val), data_range))
             ELSE Half
    ELSE value

\* Mutant: a feature without a range is clipped to [0, 1] all the same.
normalize_feature_clipall(feature_name, value, params) ==
    IF feature_name \in DOMAIN params
    THEN LET min_val == params[feature_name][1]
             max_val == params[feature_name][2]
             data_range == RatSub(max_val, min_val)
         IN  IF RatLt(Zero, data_range)
             THEN PyMin(One, PyMax(Zero,
                      RatDiv(RatSub(value, min_val), data_range)))
             ELSE Half
    ELSE PyMin(One, PyMax(Zero, value))

\* Mutant: the raw value of a constant feature is passed through.
normalize_feature_degenerate(feature_name, value, params) ==
    IF feature_name \in DOMAIN params
    THEN LET min_val == params[feature_name][1]
             max_val == params[feature_name][2]
             data_range == RatSub(max_val, min_val)
         IN  IF RatLt(Zero, data_range)
             THEN PyMin(One, PyMax(Zero,
                      RatDiv(RatSub(value, min_val), data_range)))
             ELSE value
    ELSE value

normalize_feature(feature_name, value, params) ==
    IF feature_name \in DOMAIN params
    THEN LET min_val == params[feature_name][1]
             max_val == params[feature_name][2]
             data_range == RatSub(max_val, min_val)
         IN  IF RatLt(Zero, data_range)
             THEN LET normalized_value ==
                          RatDiv(RatSub(value, min_val), data_range)
                  IN  IF normalized_value = ZeroDivisionError
                      THEN ZeroDivisionError
                      ELSE PyMin(One, PyMax(Zero, normalized_value))
             ELSE Half
    ELSE value

(***************************************************************************)
(* The normaliser called with every feature key, raw value and ranges.     *)
(***************************************************************************)
\* min <= max: a range is the min and the max of one column.
RangePairs == {p \in ProfileValues \X ProfileValues : RatLe(p[1], p[2])}

\* Every dict from some of the feature keys to a range.
NormParamsChoices == UNION {[D -> RangePairs] : D \in SUBSET FeatureKeys}

InitNormalize ==
    /\ norm_params \in NormParamsChoices
    /\ norm_call = None
    /\ norm_prev = None
    /\ avg_top_profile = None
    /\ avg_bottom_profile = None
    /\ score_call = None
    /\ radar_call = None
    /\ csv = None
    /\ load_call = None
    /\ page_view = None
    /\ df_full_hits = None
    /\ split_call = None
    /\ swap_call = None
    /\ script_runs = 0

Normalize(feature_name, value) ==
    /\ norm_prev' = norm_call
    /\ norm_call' = [kind |-> "normalize_feature",
                     feature_name |-> feature_name,
                     value |-> value,
                     result |-> normalize_feature(feature_name, value, norm_params)]
    /\ UNCHANGED <<norm_params, avg_top_profile, avg_bottom_profile,
                   score_call, radar_call, page_vars>>

NextNormalize == \E f \in FeatureKeys, v \in RawValues : Normalize(f, v)

SpecNormalize == InitNormalize /\ [][NextNormalize]_vars

(***************************************************************************)
(* calculate_prediction_score                                              *)
(***************************************************************************)
\* Mutant: a missing key yields nan, as Series.reindex would.
Get_nodefault(profile, key, default) ==
    IF key \in DOMAIN profile THEN profile[key] ELSE NaN

\* Series.get(key, default)
Get(profile, key, default) ==
    IF key \in DOMAIN profile THEN profile[key] ELSE default

\* Series.empty
Empty(profile) == DOMAIN profile = {}

\* Mutant: the raw values are used as they are.
NormVector_raw(profile, feats, params) ==
    [i \in 1..Len(feats) |-> Get(profile, feats[i], Zero)]

\* [normalize_feature(f, profile.get(f, 0), norm_params) for f in features]
NormVector(profile, feats, params) ==
    [i \in 1..Len(feats) |->
        normalize_feature(feats[i], Get(profile, feats[i], Zero), params)]

\* The sum of the squares of the first n components of u - v.
RECURSIVE SumSq(_, _, _)
SumSq(u, v, n) ==
    IF n = 0
    THEN Zero
    ELSE LET d == RatSub(u[n], v[n])
         IN  RatAdd(SumSq(u, v, n - 1), RatMul(d, d))

\* The largest r in lo..hi with r * r <= n (lo * lo <= n).
RECURSIVE ISqrtIn(_, _, _)
ISqrtIn(n, lo, hi) ==
    IF lo = hi
    THEN lo
    ELSE LET mid == (lo + hi + 1) \div 2
         IN  IF mid * mid <= n
             THEN ISqrtIn(n, mid, hi)
             ELSE ISqrtIn(n, lo, mid - 1)

\* The square root of the rational q >= 0, rounded down to a multiple of
\* 1/SqrtScale.
Sqrt(q) ==
    IF NotNumber(q) THEN NaN
    ELSE LET whole == q[1] \div q[2]
             once == (q[1] % q[2]) * SqrtScale
             twice == (once % q[2]) * SqrtScale
             n == (whole * SqrtScale + once \div q[2]) * SqrtScale
                      + twice \div q[2]
         IN  Rat(ISqrtIn(n, 0, n), SqrtScale)

\* np.linalg.norm(u - v)
Norm(u, v) == Sqrt(SumSq(u, v, Len(u)))

\* The normalised vectors do not exist when the scorer returns early.
NotComputed == <<>>

\* Mutant: the ratio is taken of the distance to the hits.
PredictionScore_swapped(dist_to_top, dist_to_bottom) ==
    IF RatAdd(dist_to_top, dist_to_bottom) = Zero
    THEN Rat(50, 1)
    ELSE RatMul(RatDiv(dist_to_top, RatAdd(dist_to_top, dist_to_bottom)),
                Rat(100, 1))

\* Mutant: the neutral 50 is returned as soon as one distance is zero.
PredictionScore_anyzero(dist_to_top, dist_to_bottom) ==
    IF RatMul(dist_to_top, dist_to_bottom) = Zero
    THEN Rat(50, 1)
    ELSE RatMul(RatDiv(dist_to_bottom, RatAdd(dist_to_top, dist_to_bottom)),
                Rat(100, 1))

\* Mutant: the ratio is not scaled to 0..100.
PredictionScore_unscaled(dist_to_top, dist_to_bottom) ==
    IF RatAdd(dist_to_top, dist_to_bottom) = Zero
    THEN Rat(50, 1)
    ELSE RatDiv(dist_to_bottom, RatAdd(dist_to_top, dist_to_bottom))

\* Mutant: the ratio is computed without the guard against a zero sum.
PredictionScore_noguard(dist_to_top, dist_to_bottom) ==
    LET ratio == RatDiv(dist_to_bottom, RatAdd(dist_to_top, dist_to_bottom))
    IN  IF ratio = ZeroDivisionError
        THEN ZeroDivisionError
        ELSE RatMul(ratio, Rat(100, 1))

\* Mutant: the distance to the flops is divided by the distance to the hits.
PredictionScore_ratio(dist_to_top, dist_to_bottom) ==
    IF RatAdd(dist_to_top, dist_to_bottom) = Zero
    THEN Rat(50, 1)
    ELSE IF dist_to_top = Zero
    THEN Rat(100, 1)
    ELSE RatMul(RatDiv(dist_to_bottom, dist_to_top), Rat(100, 1))

\* The single-reference score of the specification (Mode A) for distance d
\* over n features: 100 * (1 - d / sqrt(n)), clamped to [0, 100].
ModeAScore(d, n) ==
    PyMin(Rat(100, 1),
          PyMax(Zero,
                RatMul(Rat(100, 1),
                       RatSub(One, RatDiv(d, Sqrt(Rat(n, 1)))))))

\* Mutant: the score is the single-reference score against the hits.
PredictionScore_modeA(dist_to_top, dist_to_bottom) ==
    ModeAScore(dist_to_top, Len(features))

\* Step 3 of the scorer: the prediction score from the two distances.
PredictionScore(dist_to_top, dist_to_bottom) ==
    IF RatAdd(dist_to_top, dist_to_bottom) = Zero
    THEN Rat(50, 1)
    ELSE RatMul(RatDiv(dist_to_bottom, RatAdd(dist_to_top, dist_to_bottom)),
                Rat(100, 1))

calculate_prediction_score(user_profile, top_profile, bottom_profile, feats, params) ==
    IF Empty(top_profile) \/ Empty(bottom_profile)
    THEN [user_norm |-> NotComputed,
          top_norm |-> NotComputed,
          bottom_norm |-> NotComputed,
          prediction_score |-> Zero,
          dist_to_top |-> Zero,
          dist_to_bottom |-> Zero]
    ELSE LET user_norm == NormVector(user_profile, feats, params)
             top_norm == NormVector(top_profile, feats, params)
             bottom_norm == NormVector(bottom_profile, feats, params)
             dist_to_top == Norm(user_norm, top_norm)
             dist_to_bottom == Norm(user_norm, bottom_norm)
         IN  [user_norm |-> user_norm,
              top_norm |-> top_norm,
              bottom_norm |-> bottom_norm,
              prediction_score |-> PredictionScore(dist_to_top, dist_to_bottom),
              dist_to_top |-> dist_to_top,
              dist_to_bottom |-> dist_to_bottom]

(***************************************************************************)
(* The scorer called with every candidate, pair of reference profiles and  *)
(* ranges.                                                                 *)
(***************************************************************************)
\* Every Series holding a raw value for some of the features.
Profiles == UNION {[D -> ProfileValues] : D \in SUBSET FeatureKeys}

\* A reference profile is the mean of rows of the population the ranges are
\* the min and max of: where a feature has both, the value lies in the range.
\* (A value outside would normalise to the same 0 or 1 as the range's end.)
WithinRanges(profile, params) ==
    \A f \in (DOMAIN profile) \cap (DOMAIN params) :
        RatLe(params[f][1], profile[f]) /\ RatLe(profile[f], params[f][2])

ReferenceProfiles(params) == {p \in Profiles : WithinRanges(p, params)}

InitScore ==
    /\ norm_params \in NormParamsChoices
    /\ avg_top_profile \in ReferenceProfiles(norm_params)
    /\ avg_bottom_profile \in ReferenceProfiles(norm_params)
    /\ norm_call = None
    /\ norm_prev = None
    /\ score_call = None
    /\ radar_call = None
    /\ csv = None
    /\ load_call = None
    /\ page_view = None
    /\ df_full_hits = None
    /\ split_call = None
    /\ swap_call = None
    /\ script_runs = 0

\* One call of the scorer per run: a later call would see the same arguments.
Score(user_profile) ==
    /\ score_call = None
    /\ score_call' =
           [kind |-> "calculate_prediction_score",
            user_profile |-> user_profile,
            result |-> calculate_prediction_score(user_profile,
                           avg_top_profile, avg_bottom_profile,
                           features, norm_params)]
    /\ UNCHANGED <<norm_params, norm_call, norm_prev,
                   avg_top_profile, avg_bottom_profile, radar_call, page_vars>>

NextScore == \E user_profile \in Profiles : Score(user_profile)

SpecScore == InitScore /\ [][NextScore]_vars

(***************************************************************************)
(* The scorer called twice with one candidate: with the reference profiles *)
(* as loaded, and with the two exchanged.                                  *)
(***************************************************************************)
ScoreSwapped(user_profile) ==
    /\ score_call = None
    /\ swap_call = None
    /\ score_call' =
           [kind |-> "calculate_prediction_score",
            user_profile |-> user_profile,
            result |-> calculate_prediction_score(user_profile,
                           avg_top_profile, avg_bottom_profile,
                           features, norm_params)]
    /\ swap_call' =
           [kind |-> "calculate_prediction_score",
            user_profile |-> user_profile,
            result |-> calculate_prediction_score(user_profile,
                           avg_bottom_profile, avg_top_profile,
                           features, norm_params)]
    /\ UNCHANGED <<norm_params, norm_call, norm_prev,
                   avg_top_profile, avg_bottom_profile, radar_call,
                   csv, load_call, page_view, df_full_hits, split_call,
                   script_runs>>

\* The candidates the sliders build: a raw value for every feature.
Candidates == [FeatureKeys -> ProfileValues]

NextSwap == \E user_profile \in Candidates : ScoreSwapped(user_profile)

SpecSwap == InitScore /\ [][NextSwap]_vars

(***************************************************************************)
(* create_radar_figure                                                     *)
(***************************************************************************)
\* [profile.get(f, 0) for f in features]: the values of the hover text.
RawVector(profile, feats) ==
    [i \in 1..Len(feats) |-> Get(profile, feats[i], Zero)]

\* Mutant: the raw values are plotted.
create_radar_figure_raw(user_profile, top_profile, bottom_profile, feats, params) ==
    [r_values |-> <<RawVector(user_profile, feats),
                    RawVector(top_profile, feats),
                    RawVector(bottom_profile, feats)>>,
     theta |-> feats,
     hover_text |-> <<RawVector(user_profile, feats),
                      RawVector(top_profile, feats),
                      RawVector(bottom_profile, feats)>>]

\* The three traces of the figure, in the order of `profiles`: the plotted
\* r values, the categories and the raw values of the hover text.
create_radar_figure(user_profile, top_profile, bottom_profile, feats, params) ==
    [r_values |-> <<NormVector(user_profile, feats, params),
                    NormVector(top_profile, feats, params),
                    NormVector(bottom_profile, feats, params)>>,
     theta |-> feats,
     hover_text |-> <<RawVector(user_profile, feats),
                      RawVector(top_profile, feats),
                      RawVector(bottom_profile, feats)>>]

(***************************************************************************)
(* The scorer and the chart called with the same candidate, reference      *)
(* profiles and ranges, as the page does for one candidate.                *)
(***************************************************************************)
Present(user_profile) ==
    /\ score_call = None
    /\ score_call' =
           [kind |-> "calculate_prediction_score",
            user_profile |-> user_profile,
            result |-> calculate_prediction_score(user_profile,
                           avg_top_profile, avg_bottom_profile,
                           features, norm_params)]
    /\ radar_call' =
           [kind |-> "create_radar_figure",
            user_profile |-> user_profile,
            result |-> create_radar_figure(user_profile,
                           avg_top_profile, avg_bottom_profile,
                           features, norm_params)]
    /\ UNCHANGED <<norm_params, norm_call, norm_prev,
                   avg_top_profile, avg_bottom_profile, page_vars>>

NextPresent == \E user_profile \in Profiles : Present(user_profile)

SpecPresent == InitScore /\ [][NextPresent]_vars

(***************************************************************************)
(* pandas: columns, quantile, min, max, mean and round.                    *)
(***************************************************************************)
\* df[name]: the column as a sequence of values.
Column(df, name) == [i \in 1..Len(df) |-> df[i][name]]

\* Two sorted series merged into one, equal values of s first: the middle
\* value of s goes between the values of t below it and the others.
RECURSIVE Merge(_, _)
Merge(s, t) ==
    IF Len(s) = 0 THEN t
    ELSE IF Len(t) = 0 THEN s
    ELSE LET mid == (Len(s) + 1) \div 2
             Below(x) == RatLt(x, s[mid])
             below == Len(SelectSeq(t, Below))
         IN  Merge(SubSeq(s, 1, mid - 1), SubSeq(t, 1, below))
                 \o <<s[mid]>>
                 \o Merge(SubSeq(s, mid + 1, Len(s)),
                          SubSeq(t, below + 1, Len(t)))

\* The values of a series in increasing order.
RECURSIVE SortValues(_)
SortValues(series) ==
    IF Len(series) <= 1 THEN series
    ELSE LET half == Len(series) \div 2
         IN  Merge(SortValues(SubSeq(series, 1, half)),
                   SortValues(SubSeq(series, half + 1, Len(series))))

\* Mutant: the lower of the two neighbouring order statistics.
Quantile_lower(series, q) ==
    IF Len(series) = 0 THEN NaN
    ELSE LET pos == RatMul(Rat(Len(series) - 1, 1), q)
         IN  SortValues(series)[(pos[1] \div pos[2]) + 1]

\* Mutant: the value is carried on beyond the upper neighbour.
Quantile_beyond(series, q) ==
    IF Len(series) = 0 THEN NaN
    ELSE LET n == Len(series)
             sorted == SortValues(series)
             pos == RatMul(Rat(n - 1, 1), q)
             lo == pos[1] \div pos[2]
             fraction == RatSub(pos, Rat(lo, 1))
             lower == sorted[lo + 1]
             upper == sorted[IF lo + 2 > n THEN n ELSE lo + 2]
         IN  RatAdd(upper, RatMul(fraction, RatSub(upper, lower)))

\* Series.quantile(q), interpolation='linear': position (n - 1) * q among
\* the sorted values, interpolated between its two neighbours; nan when the
\* series has no values.
Quantile(series, q) ==
    IF Len(series) = 0 THEN NaN
    ELSE LET n == Len(series)
             sorted == SortValues(series)
             pos == RatMul(Rat(n - 1, 1), q)
             lo == pos[1] \div pos[2]
             fraction == RatSub(pos, Rat(lo, 1))
             lower == sorted[lo + 1]
             upper == sorted[IF lo + 2 > n THEN n ELSE lo + 2]
         IN  RatAdd(lower, RatMul(fraction, RatSub(upper, lower)))

\* The smallest and the largest of the first n values of a series, taken
\* of the smallest (largest) of each half.
RECURSIVE MinUpTo(_, _)
MinUpTo(series, n) ==
    IF n = 1 THEN series[1]
    ELSE LET half == n \div 2
         IN  PyMin(MinUpTo(series, half),
                   MinUpTo(SubSeq(series, half + 1, n), n - half))

RECURSIVE MaxUpTo(_, _)
MaxUpTo(series, n) ==
    IF n = 1 THEN series[1]
    ELSE LET half == n \div 2
         IN  PyMax(MaxUpTo(series, half),
                   MaxUpTo(SubSeq(series, half + 1, n), n - half))

\* Series.min() and Series.max(): nan when the series has no values.
SeriesMin(series) ==
    IF Len(series) = 0 THEN NaN ELSE MinUpTo(series, Len(series))

SeriesMax(series) ==
    IF Len(series) = 0 THEN NaN ELSE MaxUpTo(series, Len(series))

\* The sum of the first n values of a series, added up by halves.
RECURSIVE SeriesSum(_, _)
SeriesSum(series, n) ==
    IF n = 0 THEN Zero
    ELSE IF n = 1 THEN series[1]
    ELSE LET half == n \div 2
         IN  RatAdd(SeriesSum(series, half),
                    SeriesSum(SubSeq(series, half + 1, n), n - half))

\* Series.mean(): nan when the series has no values.
Mean(series) ==
    IF Len(series) = 0 THEN NaN
    ELSE RatDiv(SeriesSum(series, Len(series)), Rat(Len(series), 1))

\* Mutant: the value is kept as it is.
Round3_none(x) == x

\* .round(3): the nearest multiple of 1/1000, a tie going to the even one;
\* nan stays nan.
Round3(x) ==
    IF NotNumber(x) THEN x
    ELSE LET scaled == x[1] * 1000
             floor == scaled \div x[2]
             twice == 2 * (scaled - floor * x[2])
             nearest == IF twice < x[2] THEN floor
                        ELSE IF twice > x[2] THEN floor + 1
                        ELSE IF floor % 2 = 0 THEN floor ELSE floor + 1
         IN  Rat(nearest, 1000)

(***************************************************************************)
(* load_and_analyze_raw_data                                               *)
(***************************************************************************)
\* An empty Series, list or dict.
EmptySeries == [f \in {} |-> Zero]

\* The columns the loader reads, in the order in which it reads them.
RequiredColumns == <<"Album_Release_Date", "Popularity">> \o features

\* Mutant: the message always names Popularity.
MissingColumn_popularity(file) == "Popularity"

\* The first column the loader reads and the file does not have.
MissingColumn(file) ==
    LET missing == {i \in 1..Len(RequiredColumns) :
                        RequiredColumns[i] \notin file.columns}
    IN  RequiredColumns[CHOOSE i \in missing : \A j \in missing : i <= j]

\* Album Release Date -> Year: the first four characters as a number.
Year(date) == date[1]

\* Mutant: the except branches return a hit profile of nan and an empty
\* flop profile.
LoadError_halfempty(kind, column) ==
    [error |-> [kind |-> kind, column |-> column],
     df_modern |-> <<>>, p05 |-> NaN, p95 |-> NaN,
     df_top |-> <<>>, df_bottom |-> <<>>,
     avg_top |-> [f \in FeatureKeys |-> NaN],
     avg_bottom |-> EmptySeries,
     features |-> features, normalization_params |-> EmptySeries]

\* Mutant: the except branches return profiles of nan, not empty ones.
LoadError_placeholder(kind, column) ==
    [error |-> [kind |-> kind, column |-> column],
     df_modern |-> <<>>, p05 |-> NaN, p95 |-> NaN,
     df_top |-> <<>>, df_bottom |-> <<>>,
     avg_top |-> [f \in FeatureKeys |-> NaN],
     avg_bottom |-> [f \in FeatureKeys |-> NaN],
     features |-> <<>>, normalization_params |-> EmptySeries]

\* The result of the except branches: the error shown and four empty values.
LoadError(kind, column) ==
    [error |-> [kind |-> kind, column |-> column],
     df_modern |-> <<>>, p05 |-> NaN, p95 |-> NaN,
     df_top |-> <<>>, df_bottom |-> <<>>,
     avg_top |-> EmptySeries, avg_bottom |-> EmptySeries,
     features |-> <<>>, normalization_params |-> EmptySeries]

\* The loader's returned values with the locals they were computed from.
load_and_analyze_raw_data(file) ==
    IF ~file.exists THEN LoadError("FileNotFoundError", "")
    ELSE IF ~(\A i \in 1..Len(RequiredColumns) : RequiredColumns[i] \in file.columns)
    THEN LoadError("KeyError", MissingColumn(file))
    ELSE
    LET df_full == file.rows
        IsModern(row) == Year(row.Album_Release_Date) >= 2010
        df_modern == SelectSeq(df_full, IsModern)
        p05 == Quantile(Column(df_modern, "Popularity"), Rat(5, 100))
        p95 == Quantile(Column(df_modern, "Popularity"), Rat(95, 100))
        IsTop(row) == RatLe(p95, row.Popularity)
        IsBottom(row) == RatLe(row.Popularity, p05)
        df_top == SelectSeq(df_modern, IsTop)
        df_bottom == SelectSeq(df_modern, IsBottom)
    IN  [error |-> [kind |-> "", column |-> ""],
         df_modern |-> df_modern, p05 |-> p05, p95 |-> p95,
         df_top |-> df_top, df_bottom |-> df_bottom,
         avg_top |-> [f \in FeatureKeys |-> Round3(Mean(Column(df_top, f)))],
         avg_bottom |-> [f \in FeatureKeys |-> Round3(Mean(Column(df_bottom, f)))],
         features |-> features,
         normalization_params |->
             [f \in FeatureKeys |-> <<SeriesMin(Column(df_modern, f)),
                                      SeriesMax(Column(df_modern, f))>>]]


(***************************************************************************)
(* The predictor page: the data is loaded once (line 59), then one run of  *)
(* the script reads the sliders and shows the prediction.                  *)
(***************************************************************************)
\* The longest file of the page model, in rows.
MaxRows == 3

\* The values a row of the file is drawn from.
CsvDates == {<<2009, 12, 31>>, <<2010, 1, 1>>}

CsvPopularity == {Rat(1, 1), Rat(2, 1)}

CsvDanceability == {Rat(1, 5), Rat(1, 2), Rat(9, 10)}

CsvLoudness == {Rat(0 - 1, 1), Zero}

Rows ==
    [Album_Release_Date : CsvDates, Popularity : CsvPopularity,
     Danceability : CsvDanceability, Loudness : CsvLoudness]

AllColumns == {RequiredColumns[i] : i \in 1..Len(RequiredColumns)}

\* A place for every row in one fixed listing of the rows.
RowRank(row) ==
    ((((row.Album_Release_Date[1] - 2009) * 2 + (row.Popularity[1] - 1)) * 10
        + ((10 * row.Danceability[1]) \div row.Danceability[2])) * 10)
        + (0 - row.Loudness[1])

\* The files of up to MaxRows rows, each set of rows in one order: no
\* step of the loader depends on the order of the rows.
RowLists ==
    UNION {{rows \in [1..n -> Rows] :
                \A i \in 1..(n - 1) : RowRank(rows[i]) <= RowRank(rows[i + 1])}
           : n \in 0..MaxRows}

\* The files that lack some of the columns, with no row or with one.
FilesLacking ==
    UNION {{[exists |-> TRUE, columns |-> C, rows |-> <<>>]}
           \cup {[exists |-> TRUE, columns |-> C,
                  rows |-> <<[c \in C |-> row[c]]>>] : row \in Rows}
           : C \in (SUBSET AllColumns) \ {AllColumns}}

\* The file is absent, lacks some of the columns, or is complete.
Files ==
    {[exists |-> FALSE, columns |-> {}, rows |-> <<>>]}
    \cup FilesLacking
    \cup {[exists |-> TRUE, columns |-> AllColumns, rows |-> rows]
          : rows \in RowLists}

\* The positions of the sliders: every feature has one.
UserInputs ==
    {[Danceability |-> d, Loudness |-> l] :
         d \in {Zero, Half, One}, l \in {Rat(0 - 1, 1), Zero}}

InitPage ==
    /\ csv \in Files
    /\ norm_params = None
    /\ avg_top_profile = None
    /\ avg_bottom_profile = None
    /\ norm_call = None
    /\ norm_prev = None
    /\ score_call = None
    /\ radar_call = None
    /\ load_call = None
    /\ page_view = None
    /\ df_full_hits = None
    /\ split_call = None
    /\ swap_call = None
    /\ script_runs = 0

\* f"{x:.1f}", f"{x:.4f}": x to the nearest of `units` parts of one, a tie
\* going to the even one; nan stays nan.
FormatFixed(x, units) ==
    IF NotNumber(x) THEN x
    ELSE LET scaled == x[1] * units
             floor == scaled \div x[2]
             twice == 2 * (scaled - floor * x[2])
             nearest == IF twice < x[2] THEN floor
                        ELSE IF twice > x[2] THEN floor + 1
                        ELSE IF floor % 2 = 0 THEN floor ELSE floor + 1
         IN  Rat(nearest, units)

\* Line 238: green above 50, red below 50, orange otherwise.
ScoreColor(score) ==
    IF RatLt(Rat(50, 1), score) THEN "#1DB954"
    ELSE IF RatLt(score, Rat(50, 1)) THEN "#FF4B4B"
    ELSE "#FF9900"

\* Lines 279-283: the three profiles, rounded to three decimals, as the
\* columns of the comparison table.
ComparisonTable(user_profile, top_profile, bottom_profile) ==
    [user |-> [f \in DOMAIN user_profile |-> Round3(user_profile[f])],
     top |-> [f \in DOMAIN top_profile |-> Round3(top_profile[f])],
     bottom |-> [f \in DOMAIN bottom_profile |-> Round3(bottom_profile[f])]]

\* Line 59: the four returned values become the page's globals.
LoadData ==
    /\ load_call = None
    /\ LET returned == load_and_analyze_raw_data(csv)
       IN  /\ load_call' = [kind |-> "load_and_analyze_raw_data",
                            result |-> returned]
           /\ avg_top_profile' = returned.avg_top
           /\ avg_bottom_profile' = returned.avg_bottom
           /\ norm_params' = returned.normalization_params
    /\ UNCHANGED <<norm_call, norm_prev, score_call, radar_call,
                   csv, page_view, df_full_hits, split_call, swap_call,
                   script_runs>>

\* Lines 185-271: the warning, or the score, the distances, the chart and
\* the table for the candidate read from the sliders.
ShowPage(user_input, top_profile, bottom_profile, feats, params) ==
    IF Empty(top_profile)
    THEN /\ page_view' = [kind |-> "warning"]
         /\ UNCHANGED <<score_call, radar_call>>
    ELSE LET scored == calculate_prediction_score(user_input,
                           top_profile, bottom_profile, feats, params)
         IN  /\ score_call' = [kind |-> "calculate_prediction_score",
                               user_profile |-> user_input,
                               result |-> scored]
             /\ radar_call' =
                    [kind |-> "create_radar_figure",
                     user_profile |-> user_input,
                     result |-> create_radar_figure(user_input,
                                    top_profile, bottom_profile, feats, params)]
             /\ page_view' =
                    [kind |-> "prediction",
                     score |-> scored.prediction_score,
                     score_color |-> ScoreColor(scored.prediction_score),
                     score_text |-> FormatFixed(scored.prediction_score, 10),
                     dist_to_top |-> scored.dist_to_top,
                     dist_to_bottom |-> scored.dist_to_bottom,
                     df_comparison |->
                         ComparisonTable(user_input, top_profile,
                                         bottom_profile)]

\* The first run of the script, right after the load of line 59.
RenderPage(user_input) ==
    /\ load_call # None
    /\ page_view = None
    /\ ShowPage(user_input, avg_top_profile, avg_bottom_profile,
                load_call.result.features, norm_params)
    /\ script_runs' = 1
    /\ UNCHANGED <<norm_params, norm_call, norm_prev, avg_top_profile,
                   avg_bottom_profile, csv, load_call, df_full_hits,
                   split_call, swap_call>>

NextPage ==
    \/ LoadData
    \/ \E user_input \in UserInputs : RenderPage(user_input)

SpecPage == InitPage /\ [][NextPage]_vars

(***************************************************************************)
(* A session on the predictor page: every change of a slider runs the      *)
(* script again, and line 59 then gets the values kept by st.cache_data.   *)
(***************************************************************************)
\* The most runs of the script in a session.
MaxRuns == 3

\* Mutant: the cache gives back empty values.
CacheGet_reset(call) == LoadError("", "")

\* @st.cache_data: the value the function returned when it ran.
CacheGet(call) == call.result

\* A later run of the script with the sliders at user_input.
Rerun(user_input) ==
    /\ script_runs >= 1
    /\ script_runs < MaxRuns
    /\ LET returned == CacheGet(load_call)
       IN  /\ avg_top_profile' = returned.avg_top
           /\ avg_bottom_profile' = returned.avg_bottom
           /\ norm_params' = returned.normalization_params
           /\ ShowPage(user_input, returned.avg_top, returned.avg_bottom,
                       returned.features, returned.normalization_params)
    /\ script_runs' = script_runs + 1
    /\ UNCHANGED <<norm_call, norm_prev, csv, load_call, df_full_hits,
                   split_call, swap_call>>

\* The files of a session: those of one row at most.
SessionFiles == {file \in Files : Len(file.rows) <= 1}

\* The raw values of the separate normalize_feature calls of a session.
SessionValues == {Half}

InitSession == InitPage /\ csv \in SessionFiles

NextSession ==
    \/ LoadData
    \/ \E user_input \in UserInputs : RenderPage(user_input)
    \/ \E user_input \in UserInputs : Rerun(user_input)
    \/ \E f \in FeatureKeys, v \in SessionValues : load_call # None /\ Normalize(f, v)

SpecSession == InitSession /\ [][NextSession]_vars

(***************************************************************************)
(* The percentile splits of the trends page and of the predictor page on   *)
(* one synthetic population: the whole numbers 1..n as popularity.         *)
(***************************************************************************)
\* The largest synthetic population.
PopMax == 100

\* The numbers 1..n, counting up or counting down.
Populations ==
    {[i \in 1..n |-> Rat(i, 1)] : n \in 0..PopMax}
    \cup {[i \in 1..n |-> Rat(n + 1 - i, 1)] : n \in 0..PopMax}

\* One track of 2010 per member of the population.
Track(popularity) ==
    [Album_Release_Date |-> <<2010, 1, 1>>, Popularity |-> popularity,
     Danceability |-> Half, Loudness |-> Zero]

InitQuantile ==
    /\ df_full_hits \in Populations
    /\ csv = [exists |-> TRUE, columns |-> AllColumns,
              rows |-> [i \in 1..Len(df_full_hits) |-> Track(df_full_hits[i])]]
    /\ norm_params = None
    /\ avg_top_profile = None
    /\ avg_bottom_profile = None
    /\ norm_call = None
    /\ norm_prev = None
    /\ score_call = None
    /\ radar_call = None
    /\ load_call = None
    /\ page_view = None
    /\ split_call = None
    /\ swap_call = None
    /\ script_runs = 0

\* pages/3_Temporal_Trends.py, lines 85-93: the Top 10% and Bottom 10%
\* groups of a table that is not empty.
TemporalSplit ==
    /\ split_call = None
    /\ Len(df_full_hits) # 0
    /\ LET p10 == Quantile(df_full_hits, Rat(10, 100))
           p90 == Quantile(df_full_hits, Rat(90, 100))
           IsTop(x) == RatLe(p90, x)
           IsBottom(x) == RatLe(x, p10)
       IN  split_call' = [p10 |-> p10, p90 |-> p90,
                          df_top_10 |-> SelectSeq(df_full_hits, IsTop),
                          df_bottom_10 |-> SelectSeq(df_full_hits, IsBottom)]
    /\ UNCHANGED <<norm_params, norm_call, norm_prev, avg_top_profile,
                   avg_bottom_profile, score_call, radar_call,
                   csv, load_call, page_view, df_full_hits, swap_call,
                   script_runs>>

NextQuantile == TemporalSplit \/ LoadData

SpecQuantile == InitQuantile /\ [][NextQuantile]_vars

(***************************************************************************)
(* The same two splits on small populations with equal popularities.       *)
(***************************************************************************)
\* The popularities of a small population.
SplitValues == {Rat(k, 1) : k \in 1..3}

\* The populations of up to MaxRows + 1 members.
SmallPopulations ==
    UNION {[1..n -> SplitValues] : n \in 0..(MaxRows + 1)}

InitSplit ==
    /\ df_full_hits \in SmallPopulations
    /\ csv = [exists |-> TRUE, columns |-> AllColumns,
              rows |-> [i \in 1..Len(df_full_hits) |-> Track(df_full_hits[i])]]
    /\ norm_params = None
    /\ avg_top_profile = None
    /\ avg_bottom_profile = None
    /\ norm_call = None
    /\ norm_prev = None
    /\ score_call = None
    /\ radar_call = None
    /\ load_call = None
    /\ page_view = None
    /\ split_call = None
    /\ swap_call = None
    /\ script_runs = 0

SpecSplit == InitSplit /\ [][NextQuantile]_vars

(***************************************************************************)
(* The radar charts of the decadal page (pages/4_Decadal_Fingerprint.py)   *)
(* and of the genre page (pages/6_Genre_Deep_Dive.py), which normalise     *)
(* with fixed ranges.                                                      *)
(***************************************************************************)
\* How far the raw values reach beyond the assumed ranges.
FixedMargin == 2

\* Loudness in dB around the assumed range [-60, 0].
LoudnessValues == {Rat(k, 1) : k \in (0 - 60 - FixedMargin)..FixedMargin}

\* Tempo in BPM around the assumed range [60, 200].
TempoValues == {Rat(k, 1) : k \in (60 - FixedMargin)..(200 + FixedMargin)}

\* The features of the decadal chart that are on a 0-1 scale already.
UnitValues == {Zero, Half, One}

InitFixedRange ==
    /\ norm_params = None
    /\ avg_top_profile = None
    /\ avg_bottom_profile = None
    /\ norm_call = None
    /\ norm_prev = None
    /\ score_call = None
    /\ radar_call = None
    /\ csv = None
    /\ load_call = None
    /\ page_view = None
    /\ df_full_hits = None
    /\ split_call = None
    /\ swap_call = None
    /\ script_runs = 0

\* 4_Decadal_Fingerprint.py, lines 36-47: the plotted value of one feature
\* of the selected decade.
DecadalNorm(feature, value) ==
    IF feature = "Loudness"
    THEN RatDiv(RatAdd(value, Rat(60, 1)), Rat(60, 1))
    ELSE value

DecadalRadar(feature, value) ==
    /\ radar_call = None
    /\ radar_call' = [kind |-> "decadal", feature |-> feature,
                      value |-> value,
                      r_values |-> <<DecadalNorm(feature, value)>>]
    /\ UNCHANGED <<norm_params, norm_call, norm_prev, avg_top_profile,
                   avg_bottom_profile, score_call, page_vars>>

\* 6_Genre_Deep_Dive.py, lines 92-93: the plotted loudness and tempo of one
\* genre.
GenreRadar(loudness, tempo) ==
    /\ radar_call = None
    /\ LET norm_loudness ==
               PyMin(One, PyMax(Zero,
                   RatDiv(RatAdd(loudness, Rat(60, 1)), Rat(60, 1))))
           norm_tempo ==
               PyMin(One, PyMax(Zero,
                   RatDiv(RatSub(tempo, Rat(60, 1)), Rat(140, 1))))
       IN  radar_call' = [kind |-> "genre", loudness |-> loudness,
                          tempo |-> tempo,
                          r_values |-> <<norm_loudness, norm_tempo>>]
    /\ UNCHANGED <<norm_params, norm_call, norm_prev, avg_top_profile,
                   avg_bottom_profile, score_call, page_vars>>

NextFixedRange ==
    \/ \E value \in LoudnessValues : DecadalRadar("Loudness", value)
    \/ \E value \in UnitValues : DecadalRadar("Danceability", value)
    \/ \E loudness \in LoudnessValues, tempo \in TempoValues :
           GenreRadar(loudness, tempo)

SpecFixedRange == InitFixedRange /\ [][NextFixedRange]_vars

(***************************************************************************)
(* Claims about normalize_feature, checked under SpecNormalize.            *)
(***************************************************************************)
Called == norm_call # None

HasRange(c) == c.feature_name \in DOMAIN norm_params

MinOf(c) == norm_params[c.feature_name][1]

MaxOf(c) == norm_params[c.feature_name][2]

\* The call's feature has a range with max > min.
ProperRange(c) == HasRange(c) /\ RatLt(MinOf(c), MaxOf(c))

\* The call's feature has a range with max == min.
DegenerateRange(c) == HasRange(c) /\ MaxOf(c) = MinOf(c)

InUnit(x) == IsRat(x) /\ RatLe(Zero, x) /\ RatLe(x, One)

\* C1: for a feature whose range has max > min, every raw value normalises
\* to a value v with 0 <= v <= 1.
C1_UnitInterval ==
    (Called /\ ProperRange(norm_call)) => InUnit(norm_call.result)

\* A raw value below min was normalised with a range max > min.
C1_Witness ==
    /\ Called
    /\ ProperRange(norm_call)
    /\ RatLt(norm_call.value, MinOf(norm_call))
    /\ norm_prev # None
    /\ ProperRange(norm_prev)
    /\ RatLt(MaxOf(norm_prev), norm_prev.value)

\* C2: for a feature whose range has max > min, the raw value min normalises
\* to exactly 0 and the raw value max to exactly 1.
C2_Endpoints ==
    (Called /\ ProperRange(norm_call)) =>
        /\ (norm_call.value = MinOf(norm_call) => norm_call.result = Zero)
        /\ (norm_call.value = MaxOf(norm_call) => norm_call.result = One)

\* min and then max of one feature's range (max > min) were normalised.
C2_Witness ==
    /\ Called
    /\ norm_prev # None
    /\ ProperRange(norm_call)
    /\ norm_prev.feature_name = norm_call.feature_name
    /\ norm_prev.value = MinOf(norm_prev)
    /\ norm_call.value = MaxOf(norm_call)
    /\ norm_prev.result = Zero
    /\ norm_call.result = One

\* C3: for one feature and one range with max > min, two calls with raw
\* values a <= b return normalize(a) <= normalize(b), inside or outside
\* [min, max].
C3_Monotonic ==
    (/\ Called
     /\ norm_prev # None
     /\ norm_prev.feature_name = norm_call.feature_name
     /\ ProperRange(norm_call)) =>
        /\ IsRat(norm_prev.result)
        /\ IsRat(norm_call.result)
        /\ (RatLe(norm_prev.value, norm_call.value)
                => RatLe(norm_prev.result, norm_call.result))
        /\ (RatLe(norm_call.value, norm_prev.value)
                => RatLe(norm_call.result, norm_prev.result))

\* A value inside the range and then a larger one above max were normalised,
\* with a strictly larger result.
C3_Witness ==
    /\ Called
    /\ norm_prev # None
    /\ norm_prev.feature_name = norm_call.feature_name
    /\ ProperRange(norm_call)
    /\ RatLt(MinOf(norm_prev), norm_prev.value)
    /\ RatLt(norm_prev.value, MaxOf(norm_prev))
    /\ RatLt(MaxOf(norm_call), norm_call.value)
    /\ RatLt(norm_prev.result, norm_call.result)

\* C4: for a feature whose range has max == min, every raw value normalises
\* to exactly 0.5, and no division by zero occurs.
C4_Degenerate ==
    (Called /\ DegenerateRange(norm_call)) =>
        /\ norm_call.result = Half
        /\ norm_call.result # ZeroDivisionError

\* Values below, equal to and above the single value: two of them in a row.
C4_Witness ==
    /\ Called
    /\ norm_prev # None
    /\ DegenerateRange(norm_call)
    /\ DegenerateRange(norm_prev)
    /\ RatLt(norm_prev.value, MinOf(norm_prev))
    /\ RatLe(MaxOf(norm_call), norm_call.value)

\* C5: for a feature whose range has max > min, a raw value strictly below
\* min normalises to exactly 0 and one strictly above max to exactly 1.
C5_Clamp ==
    (Called /\ ProperRange(norm_call)) =>
        /\ (RatLt(norm_call.value, MinOf(norm_call)) => norm_call.result = Zero)
        /\ (RatLt(MaxOf(norm_call), norm_call.value) => norm_call.result = One)

\* A value more than one range above max was normalised.
C5_Witness ==
    /\ Called
    /\ ProperRange(norm_call)
    /\ RatLt(RatSub(MaxOf(norm_call), MinOf(norm_call)),
             RatSub(norm_call.value, MaxOf(norm_call)))
    /\ norm_call.result = One

\* C6: for a feature key with no entry in the ranges, the call does not fail
\* and returns the raw value unchanged.
C6_Fallback ==
    (Called /\ ~HasRange(norm_call)) =>
        norm_call.result = norm_call.value

\* A raw value above 1 was passed for a key that has no range.
C6_Witness ==
    /\ Called
    /\ ~HasRange(norm_call)
    /\ RatLt(One, norm_call.value)

\* C7 as stated: the result lies in [0, 1] for every feature key, with or
\* without an entry in the ranges.
C7_AlwaysUnit == Called => InUnit(norm_call.result)

\* C7 amended: the result lies in [0, 1] for every key that has an entry in
\* the ranges; for a key without one the result is the raw value, which lies
\* in [0, 1] only when the raw value does.
C7_UnitWhenRanged ==
    Called =>
        /\ (HasRange(norm_call) => InUnit(norm_call.result))
        /\ (~HasRange(norm_call) =>
                (InUnit(norm_call.result) <=> InUnit(norm_call.value)))

\* A key without a range returned a value above 1, after a key with a
\* range of a single value returned one inside [0, 1].
C7_Witness ==
    /\ Called
    /\ norm_prev # None
    /\ ~HasRange(norm_call)
    /\ RatLt(One, norm_call.result)
    /\ DegenerateRange(norm_prev)
    /\ RatLt(MaxOf(norm_prev), norm_prev.value)

(***************************************************************************)
(* Claims about calculate_prediction_score, checked under SpecScore.       *)
(***************************************************************************)
Scored == score_call # None

\* The scorer went past its early return and normalised the three profiles.
Normalised == Scored /\ score_call.result.user_norm # NotComputed

Hundred == Rat(100, 1)

Fifty == Rat(50, 1)

\* C8: when the candidate's normalised vector equals the hit profile's and
\* differs from the flop profile's, the score is exactly 100.
C8_HitMatchScores100 ==
    (/\ Normalised
     /\ score_call.result.user_norm = score_call.result.top_norm
     /\ score_call.result.user_norm # score_call.result.bottom_norm) =>
        score_call.result.prediction_score = Hundred

\* A candidate whose raw values differ from the hit profile's normalised to
\* the hit profile's vector, and not to the flop profile's.
C8_Witness ==
    /\ Normalised
    /\ score_call.result.user_norm = score_call.result.top_norm
    /\ score_call.result.user_norm # score_call.result.bottom_norm
    /\ score_call.user_profile # avg_top_profile
    /\ score_call.result.dist_to_bottom # Zero

\* C9: when the candidate's normalised vector equals the flop profile's and
\* differs from the hit profile's, the score is exactly 0.
C9_FlopMatchScores0 ==
    (/\ Normalised
     /\ score_call.result.user_norm = score_call.result.bottom_norm
     /\ score_call.result.user_norm # score_call.result.top_norm) =>
        score_call.result.prediction_score = Zero

\* A candidate whose raw values differ from the flop profile's normalised
\* to the flop profile's vector, and not to the hit profile's.
C9_Witness ==
    /\ Normalised
    /\ score_call.result.user_norm = score_call.result.bottom_norm
    /\ score_call.result.user_norm # score_call.result.top_norm
    /\ score_call.user_profile # avg_bottom_profile
    /\ score_call.result.dist_to_top # Zero

\* C10: when the distance to the hit profile equals the distance to the flop
\* profile and both are non-zero, the score is exactly 50.
C10_EquidistantScores50 ==
    (/\ Normalised
     /\ score_call.result.dist_to_top = score_call.result.dist_to_bottom
     /\ score_call.result.dist_to_top # Zero) =>
        score_call.result.prediction_score = Fifty

\* A candidate at the same non-zero distance from two reference profiles
\* whose normalised vectors differ.
C10_Witness ==
    /\ Normalised
    /\ score_call.result.dist_to_top = score_call.result.dist_to_bottom
    /\ score_call.result.dist_to_top # Zero
    /\ score_call.result.top_norm # score_call.result.bottom_norm

\* C11: when the candidate, the hit profile and the flop profile normalise
\* to one vector, both distances are zero, the score is 50 and nothing is
\* divided by zero.
C11_AllIdenticalScores50 ==
    (/\ Normalised
     /\ score_call.result.user_norm = score_call.result.top_norm
     /\ score_call.result.user_norm = score_call.result.bottom_norm) =>
        /\ score_call.result.dist_to_top = Zero
        /\ score_call.result.dist_to_bottom = Zero
        /\ score_call.result.prediction_score = Fifty
        /\ score_call.result.prediction_score # ZeroDivisionError

\* Three profiles with different raw values normalised to one vector.
C11_Witness ==
    /\ Normalised
    /\ score_call.result.user_norm = score_call.result.top_norm
    /\ score_call.result.user_norm = score_call.result.bottom_norm
    /\ score_call.user_profile # avg_top_profile
    /\ score_call.user_profile # avg_bottom_profile
    /\ avg_top_profile # avg_bottom_profile

\* C12: for every candidate, pair of reference profiles and ranges, the
\* score the scorer returns lies in [0, 100].
C12_ScoreInRange ==
    Scored =>
        /\ IsRat(score_call.result.prediction_score)
        /\ RatLe(Zero, score_call.result.prediction_score)
        /\ RatLe(score_call.result.prediction_score, Hundred)

\* A score strictly between 0 and 100 other than 50, closer to the hits,
\* for ranges that miss one of the features.
C12_Witness ==
    /\ Normalised
    /\ DOMAIN norm_params # FeatureKeys
    /\ RatLt(Fifty, score_call.result.prediction_score)
    /\ RatLt(score_call.result.prediction_score, Hundred)

\* The two vectors sit at opposite corners of the unit hypercube.
OppositeCorner(u, v) ==
    \A i \in 1..Len(features) :
        \/ u[i] = Zero /\ v[i] = One
        \/ u[i] = One /\ v[i] = Zero

AllRanged == FeatureKeys \subseteq DOMAIN norm_params

NumFeatures == Rat(Len(features), 1)

\* C14: with every feature normalised by its range, the distance between
\* the candidate's and a reference profile's normalised vectors over n
\* features is at most sqrt(n), its square at most n.
C14_DistanceAtMostDiagonal ==
    (Normalised /\ AllRanged) =>
        /\ RatLe(SumSq(score_call.result.user_norm,
                       score_call.result.top_norm, Len(features)), NumFeatures)
        /\ RatLe(SumSq(score_call.result.user_norm,
                       score_call.result.bottom_norm, Len(features)), NumFeatures)
        /\ RatLe(score_call.result.dist_to_top, Sqrt(NumFeatures))
        /\ RatLe(score_call.result.dist_to_bottom, Sqrt(NumFeatures))

\* A candidate with raw values outside the ranges lies a full diagonal away
\* from the hit profile.
C14_Witness ==
    /\ Normalised
    /\ AllRanged
    /\ ~WithinRanges(score_call.user_profile, norm_params)
    /\ score_call.result.dist_to_top = Sqrt(NumFeatures)
    /\ RatLt(Zero, score_call.result.dist_to_bottom)
    /\ RatLt(score_call.result.dist_to_bottom, Sqrt(NumFeatures))

\* C15: the candidate, the hit profile and the flop profile are normalised
\* feature by feature, in the order of the feature list and with the one
\* norm_params, and the distances are taken between the normalised vectors.
C15_NormalisedBeforeDistance ==
    Normalised =>
        /\ \A i \in 1..Len(features) :
              /\ score_call.result.user_norm[i] =
                     normalize_feature(features[i],
                         Get(score_call.user_profile, features[i], Zero),
                         norm_params)
              /\ score_call.result.top_norm[i] =
                     normalize_feature(features[i],
                         Get(avg_top_profile, features[i], Zero), norm_params)
              /\ score_call.result.bottom_norm[i] =
                     normalize_feature(features[i],
                         Get(avg_bottom_profile, features[i], Zero), norm_params)
        /\ score_call.result.dist_to_top =
               Sqrt(SumSq(score_call.result.user_norm,
                          score_call.result.top_norm, Len(features)))
        /\ score_call.result.dist_to_bottom =
               Sqrt(SumSq(score_call.result.user_norm,
                          score_call.result.bottom_norm, Len(features)))

\* The candidate and the hit profile differ in their raw values and not in
\* their normalised ones, and the distance between them is zero.
C15_Witness ==
    /\ Normalised
    /\ AllRanged
    /\ \E i \in 1..Len(features) :
           Get(score_call.user_profile, features[i], Zero)
               # Get(avg_top_profile, features[i], Zero)
    /\ score_call.result.dist_to_top = Zero
    /\ RatLt(Zero, score_call.result.dist_to_bottom)

(***************************************************************************)
(* Claims about the scorer and the chart together, checked under           *)
(* SpecPresent.                                                            *)
(***************************************************************************)
Presented == score_call # None /\ radar_call # None

\* The three profiles in the order of the chart's traces.
ProfileOf(k) ==
    IF k = 1 THEN score_call.user_profile
    ELSE IF k = 2 THEN avg_top_profile
    ELSE avg_bottom_profile

\* The scorer's normalised vector of trace k's profile.
ScorerVectorOf(k) ==
    IF k = 1 THEN score_call.result.user_norm
    ELSE IF k = 2 THEN score_call.result.top_norm
    ELSE score_call.result.bottom_norm

\* C16: a feature of the list that a vector (candidate or reference
\* profile) lacks is taken as raw value 0 and normalised like any other
\* value, by the scorer and by the chart, neither of which fails.
C16_MissingFeatureIsZero ==
    Presented =>
        \A k \in 1..3 : \A i \in 1..Len(features) :
            features[i] \notin DOMAIN ProfileOf(k) =>
                /\ radar_call.result.hover_text[k][i] = Zero
                /\ radar_call.result.r_values[k][i] =
                       normalize_feature(features[i], Zero, norm_params)
                /\ Normalised =>
                       ScorerVectorOf(k)[i] =
                           normalize_feature(features[i], Zero, norm_params)

\* The candidate lacks a feature whose range makes 0 normalise to 1 or to
\* 0.5, a reference profile lacks a feature too, and a score was computed.
C16_Witness ==
    /\ Presented
    /\ Normalised
    /\ \E i \in 1..Len(features) :
           /\ features[i] \notin DOMAIN score_call.user_profile
           /\ features[i] \in DOMAIN norm_params
           /\ radar_call.result.r_values[1][i] = Half
           /\ score_call.result.user_norm[i] = Half
    /\ \E i \in 1..Len(features) : features[i] \notin DOMAIN avg_top_profile
    /\ IsRat(score_call.result.prediction_score)

(***************************************************************************)
(* Claims about the loading of the data and the predictor page, checked    *)
(* under SpecPage.                                                         *)
(***************************************************************************)
Loaded == load_call # None

\* The loader went through without an exception.
LoadedOk == Loaded /\ load_call.result.error.kind = ""

Rendered == page_view # None

\* The percentile filter left one of the two cohorts without rows.
EmptyCohort ==
    /\ LoadedOk
    /\ \/ Len(load_call.result.df_top) = 0
       \/ Len(load_call.result.df_bottom) = 0

\* C17 as stated: when the filter leaves a cohort empty, the derivation of
\* the reference profiles reports an "empty cohort" error and the page
\* shows no score; no placeholder profile is scored.
C17_EmptyCohortReported ==
    (EmptyCohort /\ Rendered) =>
        /\ load_call.result.error.kind = "empty cohort"
        /\ page_view.kind # "prediction"
        /\ score_call = None

\* The rows of the file in a cohort: of 2010 or later, and at or above the
\* upper cutoff (at or below the lower one).
TopRows ==
    {i \in 1..Len(csv.rows) :
        /\ Year(csv.rows[i].Album_Release_Date) >= 2010
        /\ RatLe(load_call.result.p95, csv.rows[i].Popularity)}

BottomRows ==
    {i \in 1..Len(csv.rows) :
        /\ Year(csv.rows[i].Album_Release_Date) >= 2010
        /\ RatLe(csv.rows[i].Popularity, load_call.result.p05)}

\* The sum of feature f over the rows in I.
RECURSIVE SumOver(_, _)
SumOver(I, f) ==
    IF I = {} THEN Zero
    ELSE LET i == CHOOSE j \in I : TRUE
         IN  RatAdd(csv.rows[i][f], SumOver(I \ {i}, f))

\* The arithmetic mean of feature f over the rows in I.
ExactMean(I, f) == RatDiv(SumOver(I, f), Rat(Cardinality(I), 1))

\* x is a whole number of thousandths.
IsThousandth(x) == IsRat(x) /\ 1000 % x[2] = 0

\* x and y are at most half a thousandth apart.
WithinHalfThousandth(x, y) ==
    /\ RatLe(RatSub(x, y), Rat(1, 2000))
    /\ RatLe(RatSub(y, x), Rat(1, 2000))

\* C18 as stated: each reference profile is, feature by feature, the
\* arithmetic mean over exactly the rows of its cohort, not transformed
\* any further.
C18_ExactMean ==
    (LoadedOk /\ TopRows # {}) =>
        \A f \in FeatureKeys :
            /\ avg_top_profile[f] = ExactMean(TopRows, f)
            /\ avg_bottom_profile[f] = ExactMean(BottomRows, f)

\* C18 amended: each reference profile is, feature by feature, the
\* arithmetic mean over exactly the rows of its cohort rounded to three
\* decimal places.
C18_RoundedMean ==
    (LoadedOk /\ TopRows # {}) =>
        \A f \in FeatureKeys :
            /\ IsThousandth(avg_top_profile[f])
            /\ WithinHalfThousandth(avg_top_profile[f], ExactMean(TopRows, f))
            /\ IsThousandth(avg_bottom_profile[f])
            /\ WithinHalfThousandth(avg_bottom_profile[f],
                                    ExactMean(BottomRows, f))

\* A cohort of three rows of one popularity whose Danceability mean of 8/15
\* is returned as 0.533 and whose Loudness mean is rounded as well.
C18_Witness ==
    /\ LoadedOk
    /\ Cardinality(TopRows) = 3
    /\ ExactMean(TopRows, "Danceability") = Rat(8, 15)
    /\ avg_top_profile["Danceability"] = Rat(533, 1000)
    /\ avg_top_profile["Loudness"] # ExactMean(TopRows, "Loudness")

\* The three tracks of the scenario: all of 2010 or later, Danceability
\* 0.2, 0.5 and 0.9, and the candidate's Danceability at 0.5.
Scenario ==
    /\ LoadedOk
    /\ Rendered
    /\ Len(csv.rows) = 3
    /\ \A i \in 1..3 : Year(csv.rows[i].Album_Release_Date) >= 2010
    /\ {csv.rows[i].Danceability : i \in 1..3}
           = {Rat(1, 5), Rat(1, 2), Rat(9, 10)}
    /\ score_call # None
    /\ score_call.user_profile["Danceability"] = Half

\* x lies within tolerance of y.
Near(x, y, tolerance) ==
    /\ RatLe(RatSub(x, y), tolerance)
    /\ RatLe(RatSub(y, x), tolerance)

FourEmpty ==
    /\ Empty(load_call.result.avg_top)
    /\ Empty(load_call.result.avg_bottom)
    /\ Len(load_call.result.features) = 0
    /\ Empty(load_call.result.normalization_params)

\* The page shows the warning and nothing else: no score, no distances, no
\* chart and no comparison table.
WarningOnly ==
    /\ page_view.kind = "warning"
    /\ DOMAIN page_view = {"kind"}
    /\ score_call = None
    /\ radar_call = None

\* C21: when the file is missing the loader shows an error and returns
\* empty profiles, an empty feature list and empty ranges, and the page
\* shows only the warning: no score, no distances, no chart, no table.
C21_MissingFileWarnsOnly ==
    (Loaded /\ ~csv.exists) =>
        /\ load_call.result.error.kind = "FileNotFoundError"
        /\ FourEmpty
        /\ Empty(avg_top_profile)
        /\ Empty(avg_bottom_profile)
        /\ Empty(norm_params)
        /\ score_call = None
        /\ Rendered => WarningOnly

\* The page was run without the file.
C21_Witness ==
    /\ Loaded
    /\ ~csv.exists
    /\ Rendered
    /\ page_view.kind = "warning"

\* C22: when the file lacks a column the loader reads, the loader shows an
\* error that names a column the file lacks, returns empty profiles,
\* features and ranges, and no score is computed.
C22_MissingColumnNamed ==
    (Loaded /\ csv.exists /\ csv.columns # AllColumns) =>
        /\ load_call.result.error.kind = "KeyError"
        /\ load_call.result.error.column \in AllColumns \ csv.columns
        /\ FourEmpty
        /\ score_call = None
        /\ Rendered => WarningOnly

\* A file with a row and every column but Loudness: Loudness is named and
\* the page, once run, shows the warning.
C22_Witness ==
    /\ Loaded
    /\ csv.exists
    /\ csv.columns = AllColumns \ {"Loudness"}
    /\ Len(csv.rows) = 1
    /\ load_call.result.error.column = "Loudness"
    /\ Rendered
    /\ page_view.kind = "warning"

\* The page shows a prediction.
Predicted == Rendered /\ page_view.kind = "prediction"

\* C24: the values plotted for the candidate, the hit profile and the flop
\* profile are the normalised values of the scorer's three vectors, while
\* the hover text and the comparison table hold the raw values.
C24_ChartPlotsScorerVectors ==
    Predicted =>
        /\ radar_call.result.r_values[1] = score_call.result.user_norm
        /\ radar_call.result.r_values[2] = score_call.result.top_norm
        /\ radar_call.result.r_values[3] = score_call.result.bottom_norm
        /\ \A k \in 1..3 : \A i \in 1..Len(features) :
               radar_call.result.hover_text[k][i] = ProfileOf(k)[features[i]]
        /\ \A f \in FeatureKeys :
               /\ page_view.df_comparison.user[f] = score_call.user_profile[f]
               /\ page_view.df_comparison.top[f] = avg_top_profile[f]
               /\ page_view.df_comparison.bottom[f] = avg_bottom_profile[f]

\* A prediction whose plotted values differ from the raw values of the
\* hover text, for the candidate and for the hit profile.
C24_Witness ==
    /\ Predicted
    /\ radar_call.result.r_values[1][1] # radar_call.result.hover_text[1][1]
    /\ radar_call.result.r_values[2][2] # radar_call.result.hover_text[2][2]
    /\ radar_call.result.r_values[1] # radar_call.result.r_values[2]
    /\ page_view.df_comparison.top["Danceability"]
           # radar_call.result.r_values[2][1]

C28_EveryFeatureRanged ==
    /\ LoadedOk =>
           {load_call.result.features[i] :
                i \in 1..Len(load_call.result.features)} = DOMAIN norm_params
    /\ Predicted =>
           \A i \in 1..Len(radar_call.result.theta) :
               /\ radar_call.result.theta[i] \in DOMAIN norm_params
               /\ \A k \in 1..3 :
                      /\ InUnit(radar_call.result.r_values[k][i])
                      /\ InUnit(ScorerVectorOf(k)[i])

\* A candidate above the largest Danceability of the file, clamped to 1,
\* next to a hit profile strictly inside the range.
C28_Witness ==
    /\ Predicted
    /\ RatLt(norm_params["Danceability"][2],
             score_call.user_profile["Danceability"])
    /\ score_call.result.user_norm[1] = One
    /\ RatLt(Zero, score_call.result.top_norm[1])
    /\ RatLt(score_call.result.top_norm[1], One)

\* The loader returned four values none of which is empty.
FourNonEmpty ==
    /\ ~Empty(load_call.result.avg_top)
    /\ ~Empty(load_call.result.avg_bottom)
    /\ Len(load_call.result.features) > 0
    /\ ~Empty(load_call.result.normalization_params)

\* C30: the loader returns four empty values or four non-empty ones, so
\* the hit profile is empty exactly when the flop profile is; the scorer's
\* early return is never reached from the page, and a score of 0 on the
\* page is a computed one: the candidate at distance 0 from the flops.
C30_GuardSuffices ==
    /\ Loaded =>
           /\ FourEmpty \/ FourNonEmpty
           /\ Empty(avg_top_profile) <=> Empty(avg_bottom_profile)
    /\ Predicted =>
           /\ score_call.result.user_norm # NotComputed
           /\ page_view.score = Zero =>
                  /\ page_view.dist_to_bottom = Zero
                  /\ RatLt(Zero, page_view.dist_to_top)
    /\ (Rendered /\ page_view.kind = "warning") => score_call = None

\* The page shows the computed score 0 of a candidate that matches the flop
\* profile.
C30_Witness ==
    /\ Predicted
    /\ page_view.score = Zero
    /\ score_call.result.user_norm = score_call.result.bottom_norm
    /\ score_call.result.user_norm # score_call.result.top_norm

(***************************************************************************)
(* Claims about a session on the predictor page, checked under             *)
(* SpecSession.                                                            *)
(***************************************************************************)
\* C23: after any sequence of candidate changes and of calls of
\* normalize_feature, of the scorer and of the chart, the ranges, the two
\* reference profiles and the feature list are the values derived at load.
C23_ImmutableAfterLoad ==
    Loaded =>
        /\ norm_params = load_call.result.normalization_params
        /\ avg_top_profile = load_call.result.avg_top
        /\ avg_bottom_profile = load_call.result.avg_bottom
        /\ load_call.result = load_and_analyze_raw_data(csv)
        /\ radar_call # None => radar_call.result.theta = load_call.result.features

\* The script has run MaxRuns times, normalize_feature was called twice on
\* its own, and the ranges are those of a file with a row.
C23_Witness ==
    /\ Loaded
    /\ script_runs = MaxRuns
    /\ norm_call # None
    /\ norm_prev # None
    /\ page_view.kind = "prediction"
    /\ ~Empty(norm_params)
    /\ Len(csv.rows) = 1

(***************************************************************************)
(* Claims about the scorer with its reference profiles exchanged, checked  *)
(* under SpecSwap.                                                         *)
(***************************************************************************)
\* Both calls went past the early return.
Swapped ==
    /\ Normalised
    /\ swap_call # None
    /\ swap_call.result.user_norm # NotComputed

C26_FixedRangeUnit ==
    radar_call # None =>
        \A i \in 1..Len(radar_call.r_values) : InUnit(radar_call.r_values[i])

(***************************************************************************)
(* Claims about the percentile splits, checked under SpecQuantile.         *)
(***************************************************************************)
Split == split_call # None

\* The cutoff at fraction q of the numbers 1..n by linear interpolation:
\* 1 + (n - 1) * q.
CutoffOf(n, q) == RatAdd(One, RatMul(Rat(n - 1, 1), q))

\* C19: on the trends page and on the predictor page the cutoffs of the
\* population 1..n are the linearly interpolated 1 + (n - 1) * q; for
\* 1..100 the 90th percentile is 90.1 with 10 rows at or above it, and the
\* 95th percentile is 95.05 with 5 rows at or above it.
C19_LinearInterpolation ==
    /\ Split =>
          /\ split_call.p10 = CutoffOf(Len(df_full_hits), Rat(10, 100))
          /\ split_call.p90 = CutoffOf(Len(df_full_hits), Rat(90, 100))
          /\ Len(df_full_hits) = 100 =>
                /\ split_call.p90 = Rat(901, 10)
                /\ Len(split_call.df_top_10) = 10
    /\ (Loaded /\ Len(csv.rows) > 0) =>
          /\ load_call.result.p05 = CutoffOf(Len(csv.rows), Rat(5, 100))
          /\ load_call.result.p95 = CutoffOf(Len(csv.rows), Rat(95, 100))
          /\ Len(csv.rows) = 100 =>
                /\ load_call.result.p95 = Rat(9505, 100)
                /\ Len(load_call.result.df_top) = 5

\* The population 100, 99, .. 1 split on both pages.
C19_Witness ==
    /\ Split
    /\ Loaded
    /\ Len(df_full_hits) = 100
    /\ df_full_hits[1] = Rat(100, 1)
    /\ split_call.p90 = Rat(901, 10)
    /\ Len(split_call.df_top_10) = 10
    /\ load_call.result.p95 = Rat(9505, 100)
    /\ Len(load_call.result.df_top) = 5

(***************************************************************************)
(* Claims about the splits of small populations, checked under SpecSplit.  *)
(***************************************************************************)
\* Some value of the series is at or below x, and some at or above it.
WithinSeries(x, series) ==
    /\ \E i \in 1..Len(series) : RatLe(series[i], x)
    /\ \E i \in 1..Len(series) : RatLe(x, series[i])

\* C27: a population that is not empty leaves both cohorts non-empty on
\* both pages: each cutoff lies between the smallest and the largest
\* popularity, so a row is at or above the upper cutoff and a row is at or
\* below the lower one.
C27_CohortsNonEmpty ==
    /\ Split =>
          /\ WithinSeries(split_call.p10, df_full_hits)
          /\ WithinSeries(split_call.p90, df_full_hits)
          /\ Len(split_call.df_top_10) >= 1
          /\ Len(split_call.df_bottom_10) >= 1
    /\ (Loaded /\ Len(load_call.result.df_modern) > 0) =>
          /\ WithinSeries(load_call.result.p05,
                          Column(load_call.result.df_modern, "Popularity"))
          /\ WithinSeries(load_call.result.p95,
                          Column(load_call.result.df_modern, "Popularity"))
          /\ Len(load_call.result.df_top) >= 1
          /\ Len(load_call.result.df_bottom) >= 1

\* A population of four with its largest popularity held by one member
\* only and its smallest by two, split on both pages.
C27_Witness ==
    /\ Split
    /\ Loaded
    /\ Len(df_full_hits) = 4
    /\ Len(split_call.df_top_10) = 1
    /\ Len(split_call.df_bottom_10) = 2
    /\ Len(load_call.result.df_top) = 1
    /\ Len(load_call.result.df_bottom) = 2
    /\ RatLt(split_call.p90, split_call.df_top_10[1])

====
